---------------------------- MODULE Spec2Model ----------------------------
(***************************************************************************)
(* Model of split_pdb, the structure splitter of 03_Ensembles/HW-05.ipynb. *)
(* Text is modelled as sequences of one-character strings, a file as the   *)
(* sequence of its characters, and split_pdb as the step-by-step execution *)
(* of its statements on a small file system.                               *)
(***************************************************************************)
EXTENDS Integers, Sequences, FiniteSets, TLC

\* Largest number of text pieces the input file is assembled from.
MaxLines == 3

\* pos = 16: the 0-based column of the alternate-location marker.
pos == 16

---------------------------------------------------------------------------
(* Character strings *)

NL == "\n"
BLANK == " "

ATOM == <<"A", "T", "O", "M">>
\* Columns 5..16 of an atom record: serial number and atom name.
Fill == <<" ", " ", " ", " ", " ", " ", "1", " ", " ", "N", " ", " ">>
SUFFIX == <<".", "p", "d", "b">>

\* The argument of the call split_pdb("1yrf.pdb").
FnPdb == <<"1", "y", "r", "f">> \o SUFFIX

\* The names split_pdb is called with: the notebook's, and one shorter than
\* the four characters fn_pdb[:-4] drops.
FileNames == {FnPdb, <<"x">>}

\* A full atom record with marker m and residue text t, newline-terminated.
AtomLine(m, t) == ATOM \o Fill \o <<m>> \o t \o <<NL>>

\* The text pieces an input file is assembled from: well-formed ATOM records
\* with blank, upper-case and lower-case markers (one piece holds two
\* records of the same marker), an ATOM line cut right
\* after the keyword, an ATOM line cut right before the marker column, a
\* HETATM record carrying a marker, and an END line without a newline.
Pieces ==
    { AtomLine(BLANK, <<"x">>),
      AtomLine(BLANK, <<"y">>),
      AtomLine("A", <<"x">>),
      AtomLine("A", <<"x">>) \o AtomLine("A", <<"y">>),
      AtomLine("a", <<"y">>),
      AtomLine("B", <<"x">>),
      ATOM \o <<NL>>,
      ATOM \o Fill \o <<NL>>,
      <<"H", "E", "T", "A", "T", "M">> \o SubSeq(Fill, 3, 12) \o <<"A", "x", NL>>,
      <<"E", "N", "D">> }

RECURSIVE Flatten(_)
Flatten(ss) == IF ss = <<>> THEN <<>> ELSE Head(ss) \o Flatten(Tail(ss))

RECURSIVE SeqsUpTo(_, _)
SeqsUpTo(S, n) ==
    IF n = 0 THEN {<<>>}
    ELSE LET shorter == SeqsUpTo(S, n - 1)
         IN  shorter \cup {Append(s, x) : s \in shorter, x \in S}

\* The contents an input file may have.
Inputs == {Flatten(ss) : ss \in SeqsUpTo(Pieces, MaxLines)}

\* Iterating a text file: the content cut after every newline; a last line
\* without a newline is yielded as it is.
LineStarts(content) ==
    {i \in 1..Len(content) : i = 1 \/ content[i - 1] = NL}

\* The index of the last character of the line that starts at index s.
LineEnd(content, s) ==
    IF \E i \in s..Len(content) : content[i] = NL
    THEN CHOOSE i \in s..Len(content) :
             content[i] = NL /\ \A j \in s..(i - 1) : content[j] # NL
    ELSE Len(content)

FileLines(content) ==
    LET starts == LineStarts(content)
    IN  [k \in 1..Cardinality(starts) |->
            LET s == CHOOSE t \in starts : Cardinality({u \in starts : u < t}) = k - 1
            IN  SubSeq(content, s, LineEnd(content, s))]

\* "ATOM" in line: the keyword anywhere in the line.
ContainsATOM(line) == \E i \in 1..(Len(line) - 3) : SubSeq(line, i, i + 3) = ATOM

\* line.startswith("ATOM")
StartsWithATOM(line) == Len(line) >= 4 /\ SubSeq(line, 1, 4) = ATOM

\* line[pos] raises IndexError when the line has no index pos.
HasPos(line) == Len(line) > pos

\* state = line[pos]
StateOf(line) == line[pos + 1]

\* line[:pos] + " " + line[pos:], a slice that is off by one.
BlankInsert(line) == SubSeq(line, 1, pos) \o <<BLANK>> \o SubSeq(line, pos + 1, Len(line))

\* line[:pos] + " " + line[pos+1:]
BlankAt(line) == SubSeq(line, 1, pos) \o <<BLANK>> \o SubSeq(line, pos + 2, Len(line))

\* key.lower()
Lower(c) ==
    CASE c = "A" -> "a"
      [] c = "B" -> "b"
      [] OTHER -> c

\* A file name that leaves the key out.
OutNameNoKey(fn, key) == (IF Len(fn) > 4 THEN SubSeq(fn, 1, Len(fn) - 4) ELSE <<>>) \o SUFFIX

\* fn_pdb[:-4]
DropLast4(s) == IF Len(s) > 4 THEN SubSeq(s, 1, Len(s) - 4) ELSE <<>>

\* "{}_{}.pdb".format(fn_pdb[:-4], key.lower())
OutName(fn, key) == DropLast4(fn) \o <<"_", Lower(key)>> \o SUFFIX

---------------------------------------------------------------------------
(* Tuple comparison and list.sort() *)

\* Code point of a character (ord).
Code(c) ==
    CASE c = NL -> 10
      [] c = " " -> 32
      [] c = "." -> 46
      [] c = "1" -> 49
      [] c = "A" -> 65
      [] c = "B" -> 66
      [] c = "D" -> 68
      [] c = "E" -> 69
      [] c = "H" -> 72
      [] c = "M" -> 77
      [] c = "N" -> 78
      [] c = "O" -> 79
      [] c = "T" -> 84
      [] c = "_" -> 95
      [] c = "a" -> 97
      [] c = "b" -> 98
      [] c = "x" -> 120
      [] c = "y" -> 121
      [] OTHER -> 127

\* str < str: lexicographic by code point, a proper prefix is smaller.
RECURSIVE StrLess(_, _)
StrLess(a, b) ==
    IF b = <<>> THEN FALSE
    ELSE IF a = <<>> THEN TRUE
    ELSE IF Code(Head(a)) # Code(Head(b)) THEN Code(Head(a)) < Code(Head(b))
    ELSE StrLess(Tail(a), Tail(b))

\* (counter, line) < (counter, line): tuples compare item by item.
PairLess(p, q) == p[1] < q[1] \/ (p[1] = q[1] /\ StrLess(p[2], q[2]))

\* One insertion of the stable sort: x goes after everything not greater.
RECURSIVE InsertSorted(_, _)
InsertSorted(x, s) ==
    IF s = <<>> THEN <<x>>
    ELSE IF PairLess(x, Head(s)) THEN <<x>> \o s
    ELSE <<Head(s)>> \o InsertSorted(x, Tail(s))

RECURSIVE SortFrom(_, _)
SortFrom(s, acc) ==
    IF s = <<>> THEN acc ELSE SortFrom(Tail(s), InsertSorted(Head(s), acc))

\* What a list keeps when the sort is left out.
Unsorted(s) == s

\* lines_both.sort()
SortPairs(s) == SortFrom(s, <<>>)

---------------------------------------------------------------------------
(* The dict groups, kept in insertion order as a sequence of <<key, list>> *)

HasKey(g, k) == \E i \in 1..Len(g) : g[i][1] = k

\* groups[k]
GroupOf(g, k) == g[CHOOSE i \in 1..Len(g) : g[i][1] = k][2]

\* groups.setdefault(k, []).append(item)
GroupsAdd(g, k, item) ==
    IF HasKey(g, k)
    THEN [i \in 1..Len(g) |-> IF g[i][1] = k THEN <<k, Append(g[i][2], item)>> ELSE g[i]]
    ELSE Append(g, <<k, <<item>>>>)

---------------------------------------------------------------------------
(* Files and handles *)

NoFiles == [n \in {} |-> <<>>]

\* What open(name, "a") would leave of the file.
OpenAppend(f, name) == IF name \in DOMAIN f THEN f ELSE (name :> <<>>) @@ f

\* open(name, "w"): the file is created, or truncated when it exists.
OpenWrite(f, name) == (name :> <<>>) @@ f

\* f.write(text)
WriteTo(f, name, text) == [f EXCEPT ![name] = @ \o text]

\* A splitter that writes each record out as soon as it is read.
StreamOut(f, name, text) == WriteTo(OpenAppend(f, name), name, text)

\* groups.setdefault(...).append(...): the record is kept in memory, no
\* file is touched while the input is read.
KeepInMemory(f, name, text) == f

\* A handle that is never closed.
WithLeak(hs, name) == hs

\* Leaving a with block, normally or by an exception: the handle is closed.
WithExit(hs, name) == {h \in hs : h[1] # name}

---------------------------------------------------------------------------
(* State *)

VARIABLES
    fn_pdb,      \* the argument fn_pdb of split_pdb
    done,        \* the notebook stages after the split that have completed, in order
    fault,       \* the stage after the split that raised, or "none"
    minimized,   \* simulation.minimizeEnergy has returned
    outfiles,    \* the files the simulation cells have created
    step,        \* simulation.currentStep
    traj,        \* traj.dcd: the step index of each frame
    scalars,     \* scalars.csv: the step index of each row
    console,     \* the step index of each row printed to stdout
    fs,          \* the file system: file name -> content (a character sequence)
    fs0,         \* history: the file system before the first call
    snap,        \* history: the file system when the first call ended
    frecs,       \* history: file name -> the (counter, line) pairs written to it
    events,      \* history: the opens, reads, writes and closes of the current call
    run,         \* number of calls of split_pdb started so far
    pc,          \* position in split_pdb
    err,         \* the exception that ended the call, or "none"
    groups,      \* the dict groups
    counter,     \* the local counter
    handles,     \* the open file handles, <<name, mode>>
    todo,        \* the lines of the input not yet iterated
    items,       \* the entries of groups.items() not yet iterated
    key,         \* the loop variable key
    lines_both,  \* the local lines_both
    wi           \* index of the next pair of lines_both to write

pipe == <<done, fault, minimized, outfiles, step, traj, scalars, console>>

vars ==
    <<fn_pdb, pipe, fs, fs0, snap, frecs, events, run, pc, err, groups, counter, handles,
      todo, items, key, lines_both, wi>>

locals == <<groups, counter, todo, items, key, lines_both, wi>>

\* The state of the notebook before the simulation cells have run.
PipeStart ==
    /\ done = <<>>
    /\ fault = "none"
    /\ minimized = FALSE
    /\ outfiles = {}
    /\ step = 0
    /\ traj = <<>>
    /\ scalars = <<>>
    /\ console = <<>>

\* The state of split_pdb before it is called.
SplitStart ==
    /\ fs0 = fs
    /\ snap = fs
    /\ frecs = NoFiles
    /\ events = <<>>
    /\ run = 0
    /\ pc = "idle"
    /\ err = "none"
    /\ groups = <<>>
    /\ counter = 0
    /\ handles = {}
    /\ todo = <<>>
    /\ items = <<>>
    /\ key = BLANK
    /\ lines_both = <<>>
    /\ wi = 1

Init ==
    /\ fn_pdb \in FileNames
    /\ fs \in {NoFiles} \cup {(fn_pdb :> c) : c \in Inputs}
    /\ PipeStart
    /\ SplitStart

---------------------------------------------------------------------------
(* split_pdb, statement by statement *)

\* The call split_pdb("1yrf.pdb"): pos = 16, groups = {}, counter = 0.
Call ==
    /\ pc = "idle"
    /\ run' = run + 1
    /\ groups' = <<>>
    /\ counter' = 0
    /\ events' = <<>>
    /\ err' = "none"
    /\ pc' = "open_in"
    /\ UNCHANGED <<fn_pdb, pipe>>
    /\ UNCHANGED <<fs, fs0, snap, frecs, handles, todo, items, key, lines_both, wi>>

\* open(fn_pdb) on a file that does not exist raises FileNotFoundError.
OpenInputMissing ==
    /\ pc = "open_in"
    /\ fn_pdb \notin DOMAIN fs
    /\ err' = "FileNotFoundError"
    /\ pc' = "error"
    /\ UNCHANGED <<fn_pdb, pipe>>
    /\ UNCHANGED <<fs, fs0, snap, frecs, events, run, handles>>
    /\ UNCHANGED locals

\* with open(fn_pdb) as f:
OpenInput ==
    /\ pc = "open_in"
    /\ fn_pdb \in DOMAIN fs
    /\ handles' = handles \cup {<<fn_pdb, "r">>}
    /\ events' = Append(events, <<"open", fn_pdb, "r">>)
    /\ todo' = FileLines(fs[fn_pdb])
    /\ pc' = "read"
    /\ UNCHANGED <<fn_pdb, pipe>>
    /\ UNCHANGED <<fs, fs0, snap, frecs, run, err>>
    /\ UNCHANGED <<groups, counter, items, key, lines_both, wi>>

\* for line in f: a line that does not start with "ATOM" is passed over.
ReadOther ==
    /\ pc = "read"
    /\ todo # <<>>
    /\ ~StartsWithATOM(Head(todo))
    /\ todo' = Tail(todo)
    /\ events' = Append(events, <<"read", fn_pdb, "r">>)
    /\ UNCHANGED <<fn_pdb, pipe>>
    /\ UNCHANGED <<fs, fs0, snap, frecs, run, pc, err, handles>>
    /\ UNCHANGED <<groups, counter, items, key, lines_both, wi>>

\* An ATOM line: state = line[pos]; the marker is blanked; the pair
\* (counter, line) joins the group of its state; counter += 1.
ReadAtom ==
    /\ pc = "read"
    /\ todo # <<>>
    /\ StartsWithATOM(Head(todo))
    /\ HasPos(Head(todo))
    /\ groups' = GroupsAdd(groups, StateOf(Head(todo)), <<counter, BlankAt(Head(todo))>>)
    /\ counter' = counter + 1
    /\ todo' = Tail(todo)
    /\ events' = Append(events, <<"read", fn_pdb, "r">>)
    /\ fs' = KeepInMemory(fs, OutName(fn_pdb, StateOf(Head(todo))), BlankAt(Head(todo)))
    /\ UNCHANGED <<fn_pdb, pipe>>
    /\ UNCHANGED <<fs0, snap, frecs, run, pc, err, handles>>
    /\ UNCHANGED <<items, key, lines_both, wi>>

\* An ATOM line with no index pos: line[pos] raises IndexError, which
\* leaves the with block and ends the call.
ReadAtomShort ==
    /\ pc = "read"
    /\ todo # <<>>
    /\ StartsWithATOM(Head(todo))
    /\ ~HasPos(Head(todo))
    /\ handles' = WithExit(handles, fn_pdb)
    /\ events' = Append(Append(events, <<"read", fn_pdb, "r">>), <<"close", fn_pdb, "r">>)
    /\ err' = "IndexError"
    /\ pc' = "error"
    /\ UNCHANGED <<fn_pdb, pipe>>
    /\ UNCHANGED <<fs, fs0, snap, frecs, run>>
    /\ UNCHANGED locals

\* The input is exhausted: the with block ends; for ... in groups.items().
CloseInput ==
    /\ pc = "read"
    /\ todo = <<>>
    /\ handles' = WithExit(handles, fn_pdb)
    /\ events' = Append(events, <<"close", fn_pdb, "r">>)
    /\ items' = groups
    /\ pc' = "loop"
    /\ UNCHANGED <<fn_pdb, pipe>>
    /\ UNCHANGED <<fs, fs0, snap, frecs, run, err>>
    /\ UNCHANGED <<groups, counter, todo, key, lines_both, wi>>

\* groups.items() is exhausted: split_pdb returns.
LoopEnd ==
    /\ pc = "loop"
    /\ items = <<>>
    /\ pc' = "done"
    /\ UNCHANGED <<fn_pdb, pipe>>
    /\ UNCHANGED <<fs, fs0, snap, frecs, events, run, err, handles>>
    /\ UNCHANGED locals

\* if key == " ": continue
LoopSkipDefault ==
    /\ pc = "loop"
    /\ items # <<>>
    /\ Head(items)[1] = BLANK
    /\ key' = Head(items)[1]
    /\ items' = Tail(items)
    /\ UNCHANGED <<fn_pdb, pipe>>
    /\ UNCHANGED <<fs, fs0, snap, frecs, events, run, pc, err, handles>>
    /\ UNCHANGED <<groups, counter, todo, lines_both, wi>>

\* groups[" "] with no default group raises KeyError.
LoopKeyError ==
    /\ pc = "loop"
    /\ items # <<>>
    /\ Head(items)[1] # BLANK
    /\ ~HasKey(groups, BLANK)
    /\ key' = Head(items)[1]
    /\ items' = Tail(items)
    /\ err' = "KeyError"
    /\ pc' = "error"
    /\ UNCHANGED <<fn_pdb, pipe>>
    /\ UNCHANGED <<fs, fs0, snap, frecs, events, run, handles>>
    /\ UNCHANGED <<groups, counter, todo, lines_both, wi>>

\* lines_both = lines_group + groups[" "]; lines_both.sort()
LoopMerge ==
    /\ pc = "loop"
    /\ items # <<>>
    /\ Head(items)[1] # BLANK
    /\ HasKey(groups, BLANK)
    /\ key' = Head(items)[1]
    /\ items' = Tail(items)
    /\ lines_both' = SortPairs(Head(items)[2] \o GroupOf(groups, BLANK))
    /\ pc' = "open_out"
    /\ UNCHANGED <<fn_pdb, pipe>>
    /\ UNCHANGED <<fs, fs0, snap, frecs, events, run, err, handles>>
    /\ UNCHANGED <<groups, counter, todo, wi>>

\* with open("{}_{}.pdb".format(fn_pdb[:-4], key.lower()), "w") as f:
OpenOutput ==
    /\ pc = "open_out"
    /\ fs' = OpenWrite(fs, OutName(fn_pdb, key))
    /\ frecs' = (OutName(fn_pdb, key) :> <<>>) @@ frecs
    /\ handles' = handles \cup {<<OutName(fn_pdb, key), "w">>}
    /\ events' = Append(events, <<"open", OutName(fn_pdb, key), "w">>)
    /\ wi' = 1
    /\ pc' = "write"
    /\ UNCHANGED <<fn_pdb, pipe>>
    /\ UNCHANGED <<fs0, snap, run, err>>
    /\ UNCHANGED <<groups, counter, todo, items, key, lines_both>>

\* for counter, line in lines_both: f.write(line)
WriteLine ==
    /\ pc = "write"
    /\ wi <= Len(lines_both)
    /\ counter' = lines_both[wi][1]
    /\ fs' = WriteTo(fs, OutName(fn_pdb, key), lines_both[wi][2])
    /\ frecs' = [frecs EXCEPT ![OutName(fn_pdb, key)] = Append(@, lines_both[wi])]
    /\ events' = Append(events, <<"write", OutName(fn_pdb, key), "w">>)
    /\ wi' = wi + 1
    /\ UNCHANGED <<fn_pdb, pipe>>
    /\ UNCHANGED <<fs0, snap, run, pc, err, handles>>
    /\ UNCHANGED <<groups, todo, items, key, lines_both>>

\* lines_both is exhausted: the with block ends, back to the loop over groups.
CloseOutput ==
    /\ pc = "write"
    /\ wi > Len(lines_both)
    /\ handles' = WithExit(handles, OutName(fn_pdb, key))
    /\ events' = Append(events, <<"close", OutName(fn_pdb, key), "w">>)
    /\ pc' = "loop"
    /\ UNCHANGED <<fn_pdb, pipe>>
    /\ UNCHANGED <<fs, fs0, snap, frecs, run, err>>
    /\ UNCHANGED locals

\* The cell is run a second time on the same files.
Again ==
    /\ pc \in {"done", "error"}
    /\ run = 1
    /\ snap' = fs
    /\ pc' = "idle"
    /\ UNCHANGED <<fn_pdb, pipe>>
    /\ UNCHANGED <<fs, fs0, frecs, events, run, err, handles>>
    /\ UNCHANGED locals

Next ==
    \/ Call
    \/ OpenInputMissing
    \/ OpenInput
    \/ ReadOther
    \/ ReadAtom
    \/ ReadAtomShort
    \/ CloseInput
    \/ LoopEnd
    \/ LoopSkipDefault
    \/ LoopKeyError
    \/ LoopMerge
    \/ OpenOutput
    \/ WriteLine
    \/ CloseOutput
    \/ Again

Spec == Init /\ [][Next]_vars

---------------------------------------------------------------------------
(* What the claims speak of *)

HasInput == fn_pdb \in DOMAIN fs0

\* The ATOM records of the input, in file order: the record at index i is
\* the one split_pdb numbers i - 1.
AtomRecs == IF HasInput THEN SelectSeq(FileLines(fs0[fn_pdb]), StartsWithATOM) ELSE <<>>

\* The character at 0-based column 16 of an ATOM record that has one.
MarkerOf(rec) == rec[17]

HasMarkerColumn(rec) == Len(rec) >= 17

AllHaveMarkerColumn == \A i \in 1..Len(AtomRecs) : HasMarkerColumn(AtomRecs[i])

\* The distinct non-default markers of the input.
Markers ==
    {MarkerOf(AtomRecs[i]) : i \in {j \in 1..Len(AtomRecs) : HasMarkerColumn(AtomRecs[j])}}
        \ {BLANK}

\* The 0-based positions of the ATOM records whose marker is in ms.
PositionsOf(ms) ==
    {i - 1 : i \in {j \in 1..Len(AtomRecs) :
                      HasMarkerColumn(AtomRecs[j]) /\ MarkerOf(AtomRecs[j]) \in ms}}

\* The files that exist now and did not before the first call.
NewFiles == DOMAIN fs \ DOMAIN fs0

Ended == pc \in {"done", "error"}

\* The positions written to file n, in the order written.
WrittenPositions(n) == [j \in 1..Len(frecs[n]) |-> frecs[n][j][1]]

\* text is rec with column 16 blanked and nothing else changed.
IsBlanked(text, rec) ==
    /\ Len(text) = Len(rec)
    /\ text[17] = BLANK
    /\ \A i \in 1..Len(rec) : i # 17 => text[i] = rec[i]

\* The content of every written file is the concatenation of the lines
\* written to it.
BytesAreWrites ==
    \A n \in DOMAIN frecs :
        /\ n \in DOMAIN fs
        /\ fs[n] = Flatten([j \in 1..Len(frecs[n]) |-> frecs[n][j][2]])

---------------------------------------------------------------------------
(* The claims *)

\* C1: when split_pdb has returned, the number of output files equals the
\* number of distinct non-blank markers in column 17 of the input's ATOM
\* records.
C1_FileCountEqualsMarkerCount ==
    (fn_pdb = FnPdb /\ pc = "done") => Cardinality(NewFiles) = Cardinality(Markers)

\* C2: when split_pdb has returned, for every non-default marker k of the
\* input the output file for k holds every default record exactly once,
\* every record of marker k exactly once, and no record of another marker.
C2_FileHoldsDefaultAndOwnGroup ==
    (fn_pdb = FnPdb /\ pc = "done") =>
        \A k \in Markers :
            /\ OutName(fn_pdb, k) \in DOMAIN frecs
            /\ Len(frecs[OutName(fn_pdb, k)]) = Cardinality(PositionsOf({BLANK, k}))
            /\ {frecs[OutName(fn_pdb, k)][j][1] : j \in 1..Len(frecs[OutName(fn_pdb, k)])}
                   = PositionsOf({BLANK, k})

\* C3: in every output file the records stand in strictly increasing
\* order of their position among the ATOM records of the input, each
\* written line being the input record of that position, so that two
\* records are ordered in the output as they were in the input, also when
\* their text is identical.
C3_OutputInInputOrder ==
    LET recs == AtomRecs
    IN  \A n \in DOMAIN frecs :
            /\ \A i, j \in 1..Len(frecs[n]) :
                   i < j <=> frecs[n][i][1] < frecs[n][j][1]
            /\ \A j \in 1..Len(frecs[n]) :
                   /\ frecs[n][j][1] + 1 \in 1..Len(recs)
                   /\ IsBlanked(frecs[n][j][2], recs[frecs[n][j][1] + 1])

\* C3 witness: a returned call wrote a file in which a default record
\* precedes a marked record of identical text.
C3_Witness ==
    /\ pc = "done"
    /\ \E n \in DOMAIN frecs : \E i, j \in 1..Len(frecs[n]) :
           /\ i < j
           /\ frecs[n][i][2] = frecs[n][j][2]
           /\ MarkerOf(AtomRecs[frecs[n][i][1] + 1]) = BLANK
           /\ MarkerOf(AtomRecs[frecs[n][j][1] + 1]) # BLANK

\* C4: every record written to an output file has a blank at column 17
\* and is otherwise character for character the input record it came
\* from; the file's bytes are exactly the records written.
C4_MarkerBlankedRestUnchanged ==
    LET recs == AtomRecs
    IN  /\ BytesAreWrites
        /\ \A n \in DOMAIN frecs : \A j \in 1..Len(frecs[n]) :
               /\ frecs[n][j][1] + 1 \in 1..Len(recs)
               /\ Len(frecs[n][j][2]) = Len(recs[frecs[n][j][1] + 1])
               /\ frecs[n][j][2][17] = BLANK
               /\ \A i \in 1..Len(frecs[n][j][2]) :
                      i # 17 => frecs[n][j][2][i] = recs[frecs[n][j][1] + 1][i]

\* C4 witness: a record whose marker was not blank has been written.
C4_Witness ==
    \E n \in DOMAIN frecs : \E j \in 1..Len(frecs[n]) :
        /\ frecs[n][j][1] + 1 \in 1..Len(AtomRecs)
        /\ MarkerOf(AtomRecs[frecs[n][j][1] + 1]) = "A"
        /\ frecs[n][j][2][17] = BLANK

\* C5: when no ATOM record of the input carries a non-blank marker, the
\* call returns normally and no file is created or modified.
C5_NoMarkerNoEffect ==
    (fn_pdb = FnPdb /\ HasInput /\ Markers = {} /\ Ended) => (pc = "done" /\ fs = fs0)

\* C6: a malformed line, such as a line starting with ATOM that is shorter
\* than 17 characters, raises no error, and contributes no record and no
\* marker group.
C6_MalformedLinesSkipped ==
    fn_pdb = FnPdb =>
        /\ err # "IndexError"
        /\ \A i \in 1..Len(groups) : groups[i][1] # NL

\* C7: the input file is never changed, and when a second call on the
\* same input has ended the file system is what it was when the first
\* call ended.
C7_Idempotent ==
    /\ HasInput => (fn_pdb \in DOMAIN fs /\ fs[fn_pdb] = fs0[fn_pdb])
    /\ (run = 2 /\ Ended) => fs = snap

\* C7 witness: a second call has returned and an output file with records
\* exists.
C7_Witness ==
    /\ run = 2
    /\ pc = "done"
    /\ \E n \in NewFiles : fs[n] # <<>>

\* C8: when split_pdb has returned, the output file for a non-default
\* marker k holds exactly as many records as the default group and the
\* group of k have together.
C8_RecordCount ==
    (fn_pdb = FnPdb /\ pc = "done") =>
        \A k \in Markers :
            /\ OutName(fn_pdb, k) \in DOMAIN frecs
            /\ Len(frecs[OutName(fn_pdb, k)])
                   = Cardinality(PositionsOf({BLANK})) + Cardinality(PositionsOf({k}))

\* C9: within one call the input is opened once and read to the end
\* before any output file is opened, and no output file is opened for
\* writing more than once.
C9_ReadOnceWriteOnce ==
    fn_pdb = FnPdb =>
        /\ Cardinality({i \in 1..Len(events) : events[i] = <<"open", fn_pdb, "r">>}) <= 1
        /\ \A i, j \in 1..Len(events) :
               (events[i][3] = "w" /\ events[j][3] = "r") => j < i
        /\ \A i, j \in 1..Len(events) :
               (events[i][1] = "open" /\ events[i][3] = "w" /\ events[j] = events[i]) => i = j

\* C10: at most one file handle is open at any point; the input handle is
\* open only while the input is read and an output handle only while that
\* file is written, and none is open once the call has returned or failed.
C10_OneScopedHandle ==
    /\ Cardinality(handles) <= 1
    /\ pc = "read" => handles = {<<fn_pdb, "r">>}
    /\ pc = "write" => handles = {<<OutName(fn_pdb, key), "w">>}
    /\ pc \notin {"read", "write"} => handles = {}

\* C10 witness: a call that opened two different output files has
\* returned.
C10_Witness ==
    /\ pc = "done"
    /\ \E i, j \in 1..Len(events) :
           /\ events[i][1] = "open" /\ events[i][3] = "w"
           /\ events[j][1] = "open" /\ events[j][3] = "w"
           /\ events[i][2] # events[j][2]

---------------------------------------------------------------------------
(* The claims about records, names and faults *)

\* The line begins with the four characters A, T, O, M.
BeginsATOM(line) ==
    /\ Len(line) >= 4
    /\ line[1] = "A" /\ line[2] = "T" /\ line[3] = "O" /\ line[4] = "M"

\* The lines of the input as it was before the first call.
InputLines == IF HasInput THEN FileLines(fs0[fn_pdb]) ELSE <<>>

\* rec with its column 17 blanked.
Blanked(rec) == [i \in 1..Len(rec) |-> IF i = 17 THEN BLANK ELSE rec[i]]

\* What the default records and the records of marker k alone amount to:
\* those records, blanked, in input order.
ProjectedFile(k) ==
    LET keep(r) == HasMarkerColumn(r) /\ MarkerOf(r) \in {BLANK, k}
        sel == SelectSeq(AtomRecs, keep)
    IN  Flatten([j \in 1..Len(sel) |-> Blanked(sel[j])])

\* C14: only lines beginning with "ATOM" are records: while the input is
\* read the counter equals the number of ATOM lines read so far, and every
\* grouped or written pair (c, line) is the ATOM line number c of the
\* input, its marker being the key of its group; no other line is counted,
\* grouped or written.
C14_OnlyAtomLinesAreRecords ==
    LET lines == InputLines
        recs == SelectSeq(lines, BeginsATOM)
        nread == Len(lines) - Len(todo)
    IN  /\ pc = "read" =>
               counter = Cardinality({i \in 1..nread : BeginsATOM(lines[i])})
        /\ \A g \in 1..Len(groups) : \A j \in 1..Len(groups[g][2]) :
               /\ groups[g][2][j][1] + 1 \in 1..Len(recs)
               /\ IsBlanked(groups[g][2][j][2], recs[groups[g][2][j][1] + 1])
               /\ recs[groups[g][2][j][1] + 1][17] = groups[g][1]
        /\ \A n \in DOMAIN frecs : \A j \in 1..Len(frecs[n]) :
               /\ frecs[n][j][1] + 1 \in 1..Len(recs)
               /\ IsBlanked(frecs[n][j][2], recs[frecs[n][j][1] + 1])

\* C14 witness: the input holds a HETATM line with marker A ahead of its
\* last line, the call has returned and has written a file.
C14_Witness ==
    /\ pc = "done"
    /\ \E n \in DOMAIN frecs : frecs[n] # <<>>
    /\ \E i \in 1..(Len(InputLines) - 1) :
           /\ ~BeginsATOM(InputLines[i])
           /\ Len(InputLines[i]) >= 17
           /\ InputLines[i][17] = "A"

\* C15: the output file of marker k is named <input name without its last
\* four characters>_<k lower-cased>.pdb, and distinct markers get distinct
\* output files.
C15_DistinctMarkersDistinctFiles ==
    (fn_pdb = FnPdb /\ pc = "done") =>
        \A k1, k2 \in Markers :
            /\ OutName(fn_pdb, k1) = DropLast4(fn_pdb) \o <<"_", Lower(k1)>> \o SUFFIX
            /\ k1 # k2 => OutName(fn_pdb, k1) # OutName(fn_pdb, k2)

\* C16: when the input has records with non-blank markers and none with a
\* blank marker, the call returns and leaves one file per marker, holding
\* just that marker's records.
C16_EmptyDefaultGroup ==
    (/\ fn_pdb = FnPdb /\ Ended /\ HasInput /\ AllHaveMarkerColumn
     /\ Markers # {} /\ NL \notin Markers /\ PositionsOf({BLANK}) = {})
        => /\ pc = "done"
           /\ \A k \in Markers :
                  /\ OutName(fn_pdb, k) \in DOMAIN frecs
                  /\ {frecs[OutName(fn_pdb, k)][j][1] : j \in 1..Len(frecs[OutName(fn_pdb, k)])}
                         = PositionsOf({k})

\* C17: the input file is never opened for writing: the output name of
\* every key differs from the input name, and the input keeps the content
\* it had.
C17_InputNeverWritten ==
    /\ \A i \in 1..Len(events) : events[i][3] = "w" => events[i][2] # fn_pdb
    /\ \A g \in 1..Len(groups) : OutName(fn_pdb, groups[g][1]) # fn_pdb
    /\ fn_pdb \notin DOMAIN frecs
    /\ HasInput => (fn_pdb \in DOMAIN fs /\ fs[fn_pdb] = fs0[fn_pdb])

\* C17 witness: a call on the one-character file name has returned and
\* has created an output file.
C17_Witness ==
    /\ pc = "done"
    /\ Len(fn_pdb) < 4
    /\ NewFiles # {}

\* C18: the output file for marker k is determined by the default records
\* and the records of marker k alone: records of other markers, wherever
\* they stand, leave it what it is without them.
C18_VariantsIndependent ==
    (fn_pdb = FnPdb /\ pc = "done") =>
        \A k \in Markers :
            /\ OutName(fn_pdb, k) \in DOMAIN fs
            /\ fs[OutName(fn_pdb, k)] = ProjectedFile(k)

\* C19: when the call faults while opening or reading the input, and as
\* long as the input is being read, the file system is what it was when
\* the call began.
C19_ReadFaultTouchesNothing ==
    (\/ pc \in {"open_in", "read"}
     \/ (pc = "error" /\ err \in {"FileNotFoundError", "IndexError"}))
        => fs = (IF run = 1 THEN fs0 ELSE snap)

\* C19 witness: the call faulted on a short ATOM line after it had read a
\* default record and a record with a marker.
C19_Witness ==
    /\ pc = "error"
    /\ err = "IndexError"
    /\ HasKey(groups, BLANK)
    /\ \E g \in 1..Len(groups) : groups[g][1] # BLANK

---------------------------------------------------------------------------
(* The notebook after the split: load, configure, minimize, simulate, plot *)

\* Largest number of text pieces of the input file of a whole notebook run.
PipeLines == 2

\* simulation.step(3000)
NSteps == 3000

\* DCDReporter('traj.dcd', 10)
TrajInterval == 10

\* StateDataReporter(stdout, 100, ...)
ConsoleInterval == 100

\* StateDataReporter("scalars.csv", 10, ...)
ScalarInterval == 10

\* PDBFile('1yrf_a.pdb')
VariantName == <<"1", "y", "r", "f", "_", "a">> \o SUFFIX

PipePieces ==
    { AtomLine(BLANK, <<"x">>),
      AtomLine("A", <<"x">>),
      AtomLine("a", <<"y">>),
      AtomLine("B", <<"x">>),
      ATOM \o <<NL>>,
      <<"H", "E", "T", "A", "T", "M">> \o SubSeq(Fill, 3, 12) \o <<"A", "x", NL>> }

PipeInputs == {Flatten(ss) : ss \in SeqsUpTo(PipePieces, PipeLines)}

\* A notebook that minimizes before the simulation is set up.
StageAfterSwapped(s) ==
    CASE s = "split" -> "load"
      [] s = "load" -> "minimize"
      [] s = "minimize" -> "configure"
      [] s = "configure" -> "write_init"
      [] s = "write_init" -> "steps"
      [] s = "steps" -> "plot"
      [] s = "plot" -> "view"
      [] OTHER -> "end"

\* A notebook that starts stepping without the minimization cell's end.
StageAfterNoMinimize(s) ==
    CASE s = "split" -> "load"
      [] s = "load" -> "configure"
      [] s = "configure" -> "steps"
      [] s = "steps" -> "plot"
      [] s = "plot" -> "view"
      [] OTHER -> "end"

\* The statements of the cells in the order they stand in the notebook.
StageAfter(s) ==
    CASE s = "split" -> "load"
      [] s = "load" -> "configure"
      [] s = "configure" -> "minimize"
      [] s = "minimize" -> "write_init"
      [] s = "write_init" -> "steps"
      [] s = "steps" -> "plot"
      [] s = "plot" -> "view"
      [] OTHER -> "end"

\* The stage that runs next: the one after the last that completed. An
\* uncaught exception, in split_pdb or later, ends the execution.
Ready(stage) ==
    /\ pc = "done"
    /\ fault = "none"
    /\ stage = StageAfter(IF done = <<>> THEN "split" ELSE done[Len(done)])

\* A reporter that reports before the step instead of after it.
DueBefore(n, interval) == (n - 1) % interval = 0

\* A reporter with reportInterval = interval reports after every step whose
\* index is a multiple of the interval.
Due(n, interval) == n % interval = 0

\* pdb = PDBFile('1yrf_a.pdb')
LoadVariant ==
    /\ Ready("load")
    /\ VariantName \in DOMAIN fs
    /\ done' = Append(done, "load")
    /\ UNCHANGED <<fault, minimized, outfiles, step, traj, scalars, console>>
    /\ UNCHANGED <<fn_pdb, fs, fs0, snap, frecs, events, run, pc, err, handles>>
    /\ UNCHANGED locals

\* PDBFile('1yrf_a.pdb') on a file that does not exist raises.
LoadVariantMissing ==
    /\ Ready("load")
    /\ VariantName \notin DOMAIN fs
    /\ fault' = "load"
    /\ UNCHANGED <<done, minimized, outfiles, step, traj, scalars, console>>
    /\ UNCHANGED <<fn_pdb, fs, fs0, snap, frecs, events, run, pc, err, handles>>
    /\ UNCHANGED locals

\* ForceField, Modeller, createSystem, LangevinIntegrator, barostat,
\* Simulation, setPositions.
Configure ==
    /\ Ready("configure")
    /\ done' = Append(done, "configure")
    /\ UNCHANGED <<fault, minimized, outfiles, step, traj, scalars, console>>
    /\ UNCHANGED <<fn_pdb, fs, fs0, snap, frecs, events, run, pc, err, handles>>
    /\ UNCHANGED locals

\* simulation.minimizeEnergy(maxIterations=100)
MinimizeEnergy ==
    /\ Ready("minimize")
    /\ minimized' = TRUE
    /\ done' = Append(done, "minimize")
    /\ UNCHANGED <<fault, outfiles, step, traj, scalars, console>>
    /\ UNCHANGED <<fn_pdb, fs, fs0, snap, frecs, events, run, pc, err, handles>>
    /\ UNCHANGED locals

\* with open('init.pdb', 'w') as f: PDBFile.writeFile(...)
WriteInit ==
    /\ Ready("write_init")
    /\ outfiles' = outfiles \cup {"init.pdb"}
    /\ done' = Append(done, "write_init")
    /\ UNCHANGED <<fault, minimized, step, traj, scalars, console>>
    /\ UNCHANGED <<fn_pdb, fs, fs0, snap, frecs, events, run, pc, err, handles>>
    /\ UNCHANGED locals

\* simulation.reporters = [...]: the reporters open traj.dcd and scalars.csv.
SetReporters ==
    /\ Ready("steps")
    /\ "traj.dcd" \notin outfiles
    /\ outfiles' = outfiles \cup {"traj.dcd", "scalars.csv"}
    /\ traj' = <<>>
    /\ scalars' = <<>>
    /\ console' = <<>>
    /\ UNCHANGED <<done, fault, minimized, step>>
    /\ UNCHANGED <<fn_pdb, fs, fs0, snap, frecs, events, run, pc, err, handles>>
    /\ UNCHANGED locals

\* One integration step of simulation.step(3000), and the reports due
\* after it.
StepOnce ==
    /\ Ready("steps")
    /\ "traj.dcd" \in outfiles
    /\ step < NSteps
    /\ step' = step + 1
    /\ traj' = IF Due(step + 1, TrajInterval) THEN Append(traj, step + 1) ELSE traj
    /\ console' = IF Due(step + 1, ConsoleInterval) THEN Append(console, step + 1) ELSE console
    /\ scalars' = IF Due(step + 1, ScalarInterval) THEN Append(scalars, step + 1) ELSE scalars
    /\ UNCHANGED <<done, fault, minimized, outfiles>>
    /\ UNCHANGED <<fn_pdb, fs, fs0, snap, frecs, events, run, pc, err, handles>>
    /\ UNCHANGED locals

\* simulation.step(3000) returns; del simulation.
StepsDone ==
    /\ Ready("steps")
    /\ "traj.dcd" \in outfiles
    /\ step = NSteps
    /\ done' = Append(done, "steps")
    /\ UNCHANGED <<fault, minimized, outfiles, step, traj, scalars, console>>
    /\ UNCHANGED <<fn_pdb, fs, fs0, snap, frecs, events, run, pc, err, handles>>
    /\ UNCHANGED locals

\* df = pandas.read_csv("scalars.csv"); df.plot(...)
Plot ==
    /\ Ready("plot")
    /\ done' = Append(done, "plot")
    /\ UNCHANGED <<fault, minimized, outfiles, step, traj, scalars, console>>
    /\ UNCHANGED <<fn_pdb, fs, fs0, snap, frecs, events, run, pc, err, handles>>
    /\ UNCHANGED locals

\* traj = mdtraj.load('traj.dcd', top='init.pdb'); nglview.show_mdtraj(traj)
View ==
    /\ Ready("view")
    /\ done' = Append(done, "view")
    /\ UNCHANGED <<fault, minimized, outfiles, step, traj, scalars, console>>
    /\ UNCHANGED <<fn_pdb, fs, fs0, snap, frecs, events, run, pc, err, handles>>
    /\ UNCHANGED locals

\* A call into the simulation engine or the plotting libraries raises: the
\* exception is not caught anywhere.
EngineFault ==
    /\ \E stage \in {"configure", "minimize", "write_init", "steps", "plot", "view"} :
           /\ Ready(stage)
           /\ fault' = stage
    /\ UNCHANGED <<done, minimized, outfiles, step, traj, scalars, console>>
    /\ UNCHANGED <<fn_pdb, fs, fs0, snap, frecs, events, run, pc, err, handles>>
    /\ UNCHANGED locals

\* The notebook run once from the top on the file 1yrf.pdb.
PipeInit ==
    /\ fn_pdb = FnPdb
    /\ fs \in {NoFiles} \cup {(FnPdb :> c) : c \in PipeInputs}
    /\ PipeStart
    /\ SplitStart

PipeNext ==
    \/ Call
    \/ OpenInputMissing
    \/ OpenInput
    \/ ReadOther
    \/ ReadAtom
    \/ ReadAtomShort
    \/ CloseInput
    \/ LoopEnd
    \/ LoopSkipDefault
    \/ LoopKeyError
    \/ LoopMerge
    \/ OpenOutput
    \/ WriteLine
    \/ CloseOutput
    \/ LoadVariant
    \/ LoadVariantMissing
    \/ Configure
    \/ MinimizeEnergy
    \/ WriteInit
    \/ SetReporters
    \/ StepOnce
    \/ StepsDone
    \/ Plot
    \/ View
    \/ EngineFault

PipeSpec == PipeInit /\ [][PipeNext]_vars

---------------------------------------------------------------------------
(* The claims about the notebook run *)

\* The stages after the split, in the order the claim gives them.
StagesInOrder ==
    <<"load", "configure", "minimize", "write_init", "steps", "plot", "view">>

\* How many of the stages after the split an effect belongs behind.
StagesBefore(stage) == (CHOOSE i \in 1..Len(StagesInOrder) : StagesInOrder[i] = stage) - 1

\* C11: the stages run one at a time in the order split, load, configure,
\* minimize, write the minimized structure, integrate, plot, view: the
\* completed stages are always a prefix of that order, begun only after
\* the one call of split_pdb has returned; a fault, in split_pdb or in a
\* later stage, is the fault of the stage right after the last completed
\* one, and no effect of a later stage exists.
C11_StagesInOrderFaultStops ==
    /\ Len(done) <= Len(StagesInOrder)
    /\ \A i \in 1..Len(done) : done[i] = StagesInOrder[i]
    /\ run <= 1
    /\ done # <<>> => (pc = "done" /\ run = 1)
    /\ (pc # "done" \/ fault # "none") => Len(done) < Len(StagesInOrder)
    /\ fault # "none" => (pc = "done" /\ fault = StagesInOrder[Len(done) + 1])
    /\ minimized => Len(done) > StagesBefore("minimize")
    /\ "init.pdb" \in outfiles => Len(done) > StagesBefore("write_init")
    /\ ("traj.dcd" \in outfiles \/ "scalars.csv" \in outfiles \/ step > 0)
           => Len(done) >= StagesBefore("steps")
    /\ step < NSteps => Len(done) <= StagesBefore("steps")

\* C11 witness: a run went through all the stages.
C11_Witness ==
    /\ done = StagesInOrder
    /\ fault = "none"

\* C12: before the first integration step, and before traj.dcd or
\* scalars.csv exists or holds anything, the minimization has completed
\* and init.pdb has been written.
C12_MinimizedBeforeSteps ==
    (\/ step > 0
     \/ traj # <<>> \/ scalars # <<>> \/ console # <<>>
     \/ "traj.dcd" \in outfiles \/ "scalars.csv" \in outfiles)
        => (minimized /\ "init.pdb" \in outfiles)

\* C12 witness: the first integration step has been taken.
C12_Witness ==
    /\ step = 1
    /\ minimized

\* C13: during the 3000 steps a frame and a scalar row exist for exactly
\* the positive multiples of 10 up to the current step, and a console row
\* for exactly the multiples of 100; at the end there are 300 frames, 300
\* scalar rows with step indices 10, 20, ..., 3000, frame for row, and 30
\* console rows.
C13_ReportsEveryTenAndHundred ==
    /\ step <= 3000
    /\ traj = [k \in 1..(step \div 10) |-> 10 * k]
    /\ scalars = [k \in 1..(step \div 10) |-> 10 * k]
    /\ console = [k \in 1..(step \div 100) |-> 100 * k]
    /\ Len(done) > StagesBefore("steps") =>
           /\ step = 3000
           /\ Len(traj) = 300 /\ Len(scalars) = 300 /\ Len(console) = 30
           /\ traj = scalars
           /\ scalars[300] = 3000

\* C13 witness: the run of 3000 steps has ended with 300 frames.
C13_Witness ==
    /\ Len(done) > StagesBefore("steps")
    /\ Len(traj) = 300

\* The input holds an ATOM record whose marker is A or a.
HasVariantMarker == Markers \cap {"A", "a"} # {}

\* C20: with no 1yrf_a.pdb present at the start and an input whose ATOM
\* lines all have a marker column, once the run has got past the load or
\* has stopped, the load has succeeded exactly when the input holds an
\* ATOM record with marker A or a; otherwise nothing is minimized, no step
\* is taken and no init.pdb, traj.dcd or scalars.csv exists.
C20_LoadSucceedsIffVariantMarker ==
    (HasInput /\ AllHaveMarkerColumn /\ (pc = "error" \/ fault # "none" \/ done # <<>>))
        => /\ done # <<>> <=> HasVariantMarker
           /\ ~HasVariantMarker =>
                  (done = <<>> /\ ~minimized /\ step = 0 /\ outfiles = {})

===========================================================================
